---- MODULE Spec2Model ----
(***************************************************************************)
(* review-rot: the forge adapters (GitLab, Pagure), the adapter factory    *)
(* and the date handling they rest on, as a state machine.  One behaviour  *)
(* is one call of one entry point: Init draws the entry point, its         *)
(* arguments and the content of the remote forge; the actions run the      *)
(* call to its return value or to the exception it raises.                 *)
(***************************************************************************)
EXTENDS Integers, Sequences, FiniteSets, TLC

VARIABLES call, args, remote, pc, response, res, gi, pj, fetched, ret, err, warned

vars == <<call, args, remote, pc, response, res, gi, pj, fetched, ret, err, warned>>

(***************************************************************************)
(* Bounds of the model.                                                    *)
(***************************************************************************)
MaxMRs == 2
MaxGroups == 2
MaxProjects == 2

\* An optional value (Python's None or a value) is the empty or the
\* one-element sequence.
None == <<>>

Some(x) == <<x>>

Get(o) == o[1]

\* The outcome of a call: a returned value, or the exception raised.
Return(v) == [ok |-> TRUE, value |-> v, error |-> "none"]

Raise(e) == [ok |-> FALSE, value |-> <<>>, error |-> e]

\* The rest of a computation, F, on the value of its first part r; the
\* exception of r ends it.
Then(r, F(_)) == IF r.ok THEN F(r.value) ELSE r

\* "try: a  except ValueError: b" around calls that raise nothing else.
OrElse(a, b) == IF a.ok THEN a ELSE b

(***************************************************************************)
(* Strings are sequences of one-character strings.                         *)
(***************************************************************************)
DigitChars == <<"0", "1", "2", "3", "4", "5", "6", "7", "8", "9">>

IsDigit(c) == \E k \in 1..10 : DigitChars[k] = c

DigitVal(c) == (CHOOSE k \in 1..10 : DigitChars[k] = c) - 1

Chr(n) == DigitChars[n + 1]

\* int() of a run of digit characters s[i..i+n-1].
RECURSIVE IntOf(_, _, _)
IntOf(s, i, n) ==
    IF n = 0 THEN 0 ELSE IntOf(s, i, n - 1) * 10 + DigitVal(s[i + n - 1])

AllDigits(s, i, n) ==
    /\ i + n - 1 <= Len(s)
    /\ \A k \in i..(i + n - 1) : IsDigit(s[k])

\* "%0<w>d" % n
RECURSIVE ZeroPad(_, _)
ZeroPad(n, w) ==
    IF w = 0 THEN <<>> ELSE ZeroPad(n \div 10, w - 1) \o <<Chr(n % 10)>>

(***************************************************************************)
(* datetime: a naive timestamp is a record of its calendar fields.         *)
(***************************************************************************)
DateTime(Y, m, d, H, M, S, us) ==
    [year |-> Y, month |-> m, day |-> d, hour |-> H, minute |-> M,
     second |-> S, microsecond |-> us]

IsLeap(y) == (y % 4 = 0 /\ y % 100 # 0) \/ y % 400 = 0

DaysInMonth(y, m) ==
    IF m = 2 THEN (IF IsLeap(y) THEN 29 ELSE 28)
    ELSE IF m \in {4, 6, 9, 11} THEN 30 ELSE 31

\* The datetime constructor's range checks (it raises ValueError otherwise).
ValidDateTime(dt) ==
    /\ dt.year \in 1..9999
    /\ dt.month \in 1..12
    /\ dt.day \in 1..DaysInMonth(dt.year, dt.month)
    /\ dt.hour \in 0..23
    /\ dt.minute \in 0..59
    /\ dt.second \in 0..59
    /\ dt.microsecond \in 0..999999

ValueError == "ValueError"

(***************************************************************************)
(* datetime.strptime(s, fmt).  A format is a sequence of directives        *)
(* ("%Y", "%m", "%d", "%H", "%M", "%S", "%f") and literal characters.  The *)
(* library turns the format into a regular expression, takes the first     *)
(* match in the order of the alternatives (longest first), rejects a match *)
(* that leaves data unconverted, and builds the datetime, which checks the *)
(* ranges.  NoMatch is the regular expression failing.                     *)
(***************************************************************************)
NoMatch == [matched |-> FALSE, fields |-> <<>>, end |-> 0]

Matched(acc, i) == [matched |-> TRUE, fields |-> acc, end |-> i]

IsDirective(t) == t \in {"%Y", "%m", "%d", "%H", "%M", "%S", "%f"}

\* The lengths a directive may consume, in the order the expression tries them.
DirectiveLens(t) ==
    IF t = "%Y" THEN <<4>>
    ELSE IF t = "%f" THEN <<6, 5, 4, 3, 2, 1>>
    ELSE <<2, 1>>

\* Whether the n digits at s[i] are a text the directive's expression accepts.
DirectiveRange(t, n, v) ==
    CASE t = "%Y" -> TRUE
      [] t = "%f" -> TRUE
      [] t = "%m" -> IF n = 2 THEN v \in 1..12 ELSE v \in 1..9
      [] t = "%d" -> IF n = 2 THEN v \in 1..31 ELSE v \in 1..9
      [] t = "%H" -> IF n = 2 THEN v \in 0..23 ELSE TRUE
      [] t = "%M" -> IF n = 2 THEN v \in 0..59 ELSE TRUE
      [] t = "%S" -> IF n = 2 THEN v \in 0..61 ELSE TRUE

DirectiveAccepts(t, s, i, n) ==
    /\ AllDigits(s, i, n)
    /\ DirectiveRange(t, n, IntOf(s, i, n))

\* The value a directive's text stands for; "%f" is padded with zeros on the
\* right to six digits.
RECURSIVE Pow10(_)
Pow10(n) == IF n = 0 THEN 1 ELSE 10 * Pow10(n - 1)

DirectiveValue(t, s, i, n) ==
    IF t = "%f" THEN IntOf(s, i, n) * Pow10(6 - n) ELSE IntOf(s, i, n)

FieldOf(t) ==
    CASE t = "%Y" -> "year"
      [] t = "%m" -> "month"
      [] t = "%d" -> "day"
      [] t = "%H" -> "hour"
      [] t = "%M" -> "minute"
      [] t = "%S" -> "second"
      [] t = "%f" -> "microsecond"

\* The length the directive consumes at s[i]: the first one, in the order of
\* its alternatives, that it accepts; 0 when there is none.  Every directive
\* of the adapters' formats is followed by a literal that is no digit, or
\* ends the format, so no later alternative can match where this one fails.
RECURSIVE DirectiveLen(_, _, _, _)
DirectiveLen(t, s, i, k) ==
    IF k > Len(DirectiveLens(t)) THEN 0
    ELSE IF DirectiveAccepts(t, s, i, DirectiveLens(t)[k])
    THEN DirectiveLens(t)[k]
    ELSE DirectiveLen(t, s, i, k + 1)

\* The match of fmt[j..] at s[i..]: the fields found and the end of the match.
RECURSIVE MatchFrom(_, _, _, _, _)
RECURSIVE MatchField(_, _, _, _, _, _)
MatchFrom(s, i, fmt, j, acc) ==
    IF j > Len(fmt) THEN Matched(acc, i)
    ELSE IF IsDirective(fmt[j])
    THEN MatchField(s, i, fmt, j, acc, DirectiveLen(fmt[j], s, i, 1))
    ELSE IF i <= Len(s) /\ s[i] = fmt[j] THEN MatchFrom(s, i + 1, fmt, j + 1, acc)
    ELSE NoMatch

\* The directive fmt[j] consuming the n characters at s[i].
MatchField(s, i, fmt, j, acc, n) ==
    IF n = 0 THEN NoMatch
    ELSE MatchFrom(s, i + n, fmt, j + 1,
             [acc EXCEPT ![FieldOf(fmt[j])] = DirectiveValue(fmt[j], s, i, n)])

StrptimeDefaults == DateTime(1900, 1, 1, 0, 0, 0, 0)

\* What strptime makes of the match m of a text of length n.
StrptimeResult(m, n) ==
    IF ~m.matched THEN Raise(ValueError)
    ELSE IF m.end # n + 1 THEN Raise(ValueError)
    ELSE IF ~ValidDateTime(m.fields) THEN Raise(ValueError)
    ELSE Return(m.fields)

Strptime(s, fmt) ==
    StrptimeResult(MatchFrom(s, 1, fmt, 1, StrptimeDefaults), Len(s))

\* datetime.strftime for the fields the adapters write.
Strftime(dt, fmt) ==
    LET Piece(t) ==
            CASE t = "%Y" -> ZeroPad(dt.year, 4)
              [] t = "%m" -> ZeroPad(dt.month, 2)
              [] t = "%d" -> ZeroPad(dt.day, 2)
              [] t = "%H" -> ZeroPad(dt.hour, 2)
              [] t = "%M" -> ZeroPad(dt.minute, 2)
              [] t = "%S" -> ZeroPad(dt.second, 2)
              [] t = "%f" -> ZeroPad(dt.microsecond, 6)
              [] OTHER -> <<t>>
        F[k \in 0..Len(fmt)] == IF k = 0 THEN <<>> ELSE F[k - 1] \o Piece(fmt[k])
    IN F[Len(fmt)]

\* The formats of the adapters.
FmtIsoFrac == <<"%Y", "-", "%m", "-", "%d", "T", "%H", ":", "%M", ":", "%S", ".", "%f", "Z">>
FmtIso == <<"%Y", "-", "%m", "-", "%d", "T", "%H", ":", "%M", ":", "%S", "Z">>
FmtSqlFrac == <<"%Y", "-", "%m", "-", "%d", " ", "%H", ":", "%M", ":", "%S", ".", "%f">>
FmtSql == <<"%Y", "-", "%m", "-", "%d", " ", "%H", ":", "%M", ":", "%S">>


(***************************************************************************)
(* Arithmetic on naive timestamps: seconds since 1970-01-01 00:00:00.      *)
(***************************************************************************)
LeapsBefore(y) == ((y - 1) \div 4) - ((y - 1) \div 100) + ((y - 1) \div 400)

RECURSIVE DaysBeforeMonth(_, _)
DaysBeforeMonth(y, m) ==
    IF m = 1 THEN 0 ELSE DaysBeforeMonth(y, m - 1) + DaysInMonth(y, m - 1)

DaysFromCivil(y, m, d) ==
    365 * (y - 1970) + (LeapsBefore(y) - LeapsBefore(1970))
        + DaysBeforeMonth(y, m) + (d - 1)

ToSeconds(dt) ==
    DaysFromCivil(dt.year, dt.month, dt.day) * 86400
        + dt.hour * 3600 + dt.minute * 60 + dt.second

YearLen(y) == IF IsLeap(y) THEN 366 ELSE 365

RECURSIVE YearOfDay(_, _)
YearOfDay(n, y) ==
    IF n >= YearLen(y) THEN YearOfDay(n - YearLen(y), y + 1) ELSE <<y, n>>

RECURSIVE MonthOfDay(_, _, _)
MonthOfDay(n, y, m) ==
    IF n >= DaysInMonth(y, m) THEN MonthOfDay(n - DaysInMonth(y, m), y, m + 1)
    ELSE <<m, n + 1>>

\* datetime.timedelta comparison of two naive timestamps.
Before(a, b) ==
    \/ ToSeconds(a) < ToSeconds(b)
    \/ ToSeconds(a) = ToSeconds(b) /\ a.microsecond < b.microsecond

\* The wall clock of the run ("now"), and the moments the remote data is
\* dated at: a request of some months ago and one of a few days ago, a comment
\* of some weeks ago and one of yesterday.
Now == DateTime(2020, 3, 15, 12, 0, 0, 0)

OldTime == DateTime(2019, 12, 31, 23, 59, 59, 0)

RecentTime == DateTime(2020, 3, 10, 8, 30, 5, 500000)

OldCommentTime == DateTime(2020, 2, 1, 9, 0, 0, 250000)

NewCommentTime == DateTime(2020, 3, 14, 18, 45, 10, 0)

(***************************************************************************)
(* basereview: BaseService.check_request_state and has_new_comments, and   *)
(* the records BaseReview and LastComment.                                 *)
(***************************************************************************)
LastComment(author, body, created_at) ==
    [author |-> author, body |-> body, created_at |-> created_at]

\* now - value * duration: "year" and "month" move the calendar field and
\* clamp the day of the month; the other units are fixed lengths.
Threshold(now, value, duration) ==
    CASE duration = "year" ->
            LET y == now.year - value IN
            [now EXCEPT !.year = y,
                        !.day = IF now.day > DaysInMonth(y, now.month)
                                THEN DaysInMonth(y, now.month) ELSE now.day]
      [] duration = "month" ->
            LET k == (now.year * 12 + (now.month - 1)) - value
                y == k \div 12
                m == (k % 12) + 1 IN
            [now EXCEPT !.year = y, !.month = m,
                        !.day = IF now.day > DaysInMonth(y, m)
                                THEN DaysInMonth(y, m) ELSE now.day]
      [] OTHER ->
            LET unit == CASE duration = "day" -> 86400
                          [] duration = "hour" -> 3600
                          [] duration = "minute" -> 60
                t == ToSeconds(now) - value * unit
                yd == YearOfDay(t \div 86400, 1970)
                md == MonthOfDay(yd[2], yd[1], 1)
                r == t % 86400 IN
            DateTime(yd[1], md[1], md[2], r \div 3600, (r % 3600) \div 60,
                     r % 60, now.microsecond)

check_request_state(review_time, state_, value, duration) ==
    IF state_ = None THEN TRUE
    ELSE LET threshold == Threshold(Now, Get(value), Get(duration)) IN
         IF Get(state_) = "older" THEN Before(review_time, threshold)
         ELSE Before(threshold, review_time)

\* (now - last_comment_time) <= window_days
has_new_comments(last_comment_time, window_days) ==
    IF last_comment_time = None \/ window_days = None THEN FALSE
    ELSE ToSeconds(Now) - ToSeconds(Get(last_comment_time))
             <= Get(window_days) * 86400

\* Python's truth value of an optional object and of an optional number.
TruthyObject(o) == o # None

TruthyNumber(o) == o # None /\ Get(o) # 0


(***************************************************************************)
(* The remote forge.  A timestamp of the remote is a moment and the form   *)
(* it is written in; the adapters read its text.                           *)
(*   "frac6"  YYYY-MM-DDTHH:MM:SS.ffffffZ                                  *)
(*   "frac3"  YYYY-MM-DDTHH:MM:SS.fffZ      (milliseconds)                 *)
(*   "nofrac" YYYY-MM-DDTHH:MM:SSZ                                         *)
(*   "sql"    YYYY-MM-DD HH:MM:SS           (neither GitLab form)          *)
(***************************************************************************)
Stamp(instant, form) == [instant |-> instant, form |-> form]

StampText(st) ==
    CASE st.form = "frac6" -> Strftime(st.instant, FmtIsoFrac)
      [] st.form = "frac3" ->
            Strftime(st.instant, SubSeq(FmtIso, 1, 11)) \o <<".">>
                \o ZeroPad(st.instant.microsecond \div 1000, 3) \o <<"Z">>
      [] st.form = "nofrac" -> Strftime(st.instant, FmtIso)
      [] st.form = "sql" -> Strftime(st.instant, FmtSql)

\* The sequences over S of length at most n.
SeqUpTo(S, n) == UNION {[1..k -> S] : k \in 0..n}

\* A note of a merge request, as notes.list() gives it.
Note(id, system, stamp) ==
    [id |-> id, system |-> system, author |-> "reviewer", body |-> id,
     created_at |-> stamp]

\* The notes of a merge request: none; a system note alone; a system note
\* before a human one; a human one before a system one; a human note dated
\* without fractional seconds.
GitlabNoteLists ==
    { <<>>,
      <<Note(1, TRUE, Stamp(NewCommentTime, "frac3"))>>,
      <<Note(1, TRUE, Stamp(NewCommentTime, "frac3")),
        Note(2, FALSE, Stamp(NewCommentTime, "frac3"))>>,
      <<Note(1, FALSE, Stamp(OldCommentTime, "frac3")),
        Note(2, TRUE, Stamp(NewCommentTime, "frac3"))>>,
      <<Note(1, FALSE, Stamp(NewCommentTime, "nofrac"))>> }

GitlabCreatedStamps ==
    { Stamp(OldTime, "nofrac"), Stamp(RecentTime, "frac3"),
      Stamp(OldTime, "sql") }

\* What a merge request of a listing holds besides its place in the listing.
GitlabMRKinds ==
    [created_at : GitlabCreatedStamps, notes : GitlabNoteLists]

\* The merge requests of a project, as mergerequests.list(state='opened')
\* gives them: the k-th has iid k.
MergeRequests(project) ==
    [k \in 1..Len(project.listing) |->
        [iid |-> k, created_at |-> project.listing[k].created_at,
         notes |-> project.listing[k].notes]]

Project(id, listing) == [id |-> id, listing |-> listing]

(***************************************************************************)
(* GitlabService                                                           *)
(***************************************************************************)
\* get_last_comment: the first note that is not a system note.
RECURSIVE FirstHumanNote(_, _)
FirstHumanNote(notes, k) ==
    IF k > Len(notes) THEN 0
    ELSE IF notes[k].system = FALSE THEN k
    ELSE FirstHumanNote(notes, k + 1)

GitlabGetLastComment(mr) ==
    LET k == FirstHumanNote(mr.notes, 1) IN
    IF k = 0 THEN Return(None)
    ELSE Then(Strptime(StampText(mr.notes[k].created_at), FmtIsoFrac),
              LAMBDA t : Return(Some(LastComment(mr.notes[k].author,
                                                 mr.notes[k].body, t))))

\* The creation date: the form with fractional seconds, and on ValueError the
\* form without.
ParseCreatedAt_NoFallback(text) == Strptime(text, FmtIsoFrac)

GitlabParseCreatedAt(text) ==
    OrElse(Strptime(text, FmtIsoFrac), Strptime(text, FmtIso))

GitlabReview(mr, project, mr_date, last_comment) ==
    [url |-> <<project.id, mr.iid>>, title |-> mr.iid, time |-> mr_date,
     last_comment |-> last_comment, project_name |-> project.id]

\* "if result is False: continue"
StateFilterSkips_Never(result) == FALSE

StateFilterSkips(result) == result = FALSE

\* "if last_comment and last_commented: if self.has_new_comments(...): continue"
ActivityFilterSkips_AnyComment(last_comment, last_commented) ==
    TruthyObject(last_comment) /\ TruthyNumber(last_commented)

ActivityFilterSkips(last_comment, last_commented) ==
    /\ TruthyObject(last_comment)
    /\ TruthyNumber(last_commented)
    /\ has_new_comments(Some(Get(last_comment).created_at), last_commented)

\* res_.append(res)
Append_Front(res_, review) == <<review>> \o res_

AppendReview(res_, review) == Append(res_, review)

\* The end of a turn of the loop for a request whose dates were read: the
\* two filters, and the review appended.
FilterAndAppend(a, time, last_comment, review, res_) ==
    IF StateFilterSkips(check_request_state(time, a.state_, a.value, a.duration))
    THEN res_
    ELSE IF ActivityFilterSkips(last_comment, a.last_commented) THEN res_
    ELSE AppendReview(res_, review)

\* One turn of the loop of get_reviews over merge request mr, res_ being the
\* list so far: the list after it, or the exception that ends the call.
GitlabReviewStep(project, a, mr, res_) ==
    Then(GitlabGetLastComment(mr), LAMBDA last_comment :
        Then(GitlabParseCreatedAt(StampText(mr.created_at)), LAMBDA mr_date :
            Return(FilterAndAppend(a, mr_date, last_comment,
                       GitlabReview(mr, project, mr_date, last_comment),
                       res_))))

RECURSIVE GitlabReviewLoop(_, _, _, _)
GitlabReviewLoop(project, a, k, res_) ==
    IF k > Len(project.listing) THEN Return(res_)
    ELSE Then(GitlabReviewStep(project, a, MergeRequests(project)[k], res_),
              LAMBDA v : GitlabReviewLoop(project, a, k + 1, v))

GitlabGetReviews(project, a) == GitlabReviewLoop(project, a, 1, <<>>)


(***************************************************************************)
(* PagureService.  A pull request of the API's "requests" array carries    *)
(* date_created, the decimal text of the seconds since the epoch, and its  *)
(* comments oldest first, each with the "notification" mark of a comment   *)
(* the forge posted itself.                                                *)
(***************************************************************************)
RECURSIVE Decimal(_)
Decimal(n) == IF n < 10 THEN <<Chr(n)>> ELSE Decimal(n \div 10) \o <<Chr(n % 10)>>

\* int(text)
IntFromText(text) ==
    IF Len(text) > 0 /\ AllDigits(text, 1, Len(text))
    THEN Return(IntOf(text, 1, Len(text)))
    ELSE Raise(ValueError)

\* datetime.utcfromtimestamp(seconds)
UtcFromTimestamp(t) ==
    LET yd == YearOfDay(t \div 86400, 1970)
        md == MonthOfDay(yd[2], yd[1], 1)
        r == t % 86400 IN
    DateTime(yd[1], md[1], md[2], r \div 3600, (r % 3600) \div 60, r % 60, 0)

PagureComment(id, notification, instant) ==
    [id |-> id, notification |-> notification, user |-> "reviewer",
     comment |-> id, date_created |-> Decimal(ToSeconds(instant))]

\* The comments of a pull request: none; one human comment; a human comment
\* followed by a notification; a notification followed by a human comment.
PagureCommentLists ==
    { <<>>,
      <<PagureComment(1, FALSE, NewCommentTime)>>,
      <<PagureComment(1, FALSE, OldCommentTime),
        PagureComment(2, TRUE, NewCommentTime)>>,
      <<PagureComment(1, TRUE, OldCommentTime),
        PagureComment(2, FALSE, OldCommentTime)>> }

PagureDates == {Decimal(ToSeconds(OldTime)), Decimal(ToSeconds(RecentTime))}

PagureRequestKinds ==
    [date_created : PagureDates, comments : PagureCommentLists]

\* response['requests']: the k-th request has id k.
PagureRequests(r) ==
    [k \in 1..Len(r.listing) |->
        [id |-> k, title |-> k, project |-> r.project,
         date_created |-> r.listing[k].date_created,
         comments |-> r.listing[k].comments]]

\* get_last_comment: the last element of the comments array.
PagureGetLastComment(req) ==
    LET comments == req.comments IN
    IF comments = <<>> THEN Return(None)
    ELSE Then(IntFromText(comments[Len(comments)].date_created), LAMBDA secs :
             Then(Strptime(Strftime(UtcFromTimestamp(secs), FmtSql), FmtSql),
                  LAMBDA t :
                      Return(Some(LastComment(comments[Len(comments)].user,
                                              comments[Len(comments)].comment,
                                              t)))))

\* os.path.join(namespace, name), and the name alone when that raises (the
\* project has no namespace).
RepoReference(project) ==
    IF project.namespace = None THEN <<project.name>>
    ELSE <<Get(project.namespace), project.name>>

\* The creation date: the epoch seconds written as '%Y-%m-%d %H:%M:%S' and
\* read back, first with and then without fractional seconds.
PagureReadDate(created_date) ==
    OrElse(Strptime(created_date, FmtSqlFrac), Strptime(created_date, FmtSql))

PagureParseDate(date_created) ==
    Then(IntFromText(date_created), LAMBDA secs :
        PagureReadDate(Strftime(UtcFromTimestamp(secs), FmtSql)))

PagureReview(req, date, last_comment) ==
    [url |-> <<RepoReference(req.project), req.id>>, title |-> req.title,
     time |-> date, comments |-> Len(req.comments),
     last_comment |-> last_comment,
     project_name |-> RepoReference(req.project)]

PagureReviewStep(a, req, res_) ==
    Then(PagureGetLastComment(req), LAMBDA last_comment :
        Then(PagureParseDate(req.date_created), LAMBDA date :
            Return(FilterAndAppend(a, date, last_comment,
                       PagureReview(req, date, last_comment), res_))))

RECURSIVE PagureReviewLoop(_, _, _, _)
PagureReviewLoop(r, a, k, res_) ==
    IF k > Len(r.listing) THEN Return(res_)
    ELSE Then(PagureReviewStep(a, PagureRequests(r)[k], res_),
              LAMBDA v : PagureReviewLoop(r, a, k + 1, v))

\* The URL the listing is asked from: with repo_name the user is the
\* namespace, without it the user is the repository.
PagureRequestUrl(a) ==
    IF a.repo_name # None
    THEN <<"https://pagure.io", "api", "0", a.user_name, Get(a.repo_name),
           "pull-requests">>
    ELSE <<"https://pagure.io", "api", "0", a.user_name, "pull-requests">>

(***************************************************************************)
(* get_git_service                                                         *)
(***************************************************************************)
GetGitService_DefaultGithub(git) ==
    IF git = "gitlab" THEN Return("GitlabService")
    ELSE IF git = "pagure" THEN Return("PagureService")
    ELSE IF git = "gerrit" THEN Return("GerritService")
    ELSE Return("GithubService")

GetGitService(git) ==
    IF git = "github" THEN Return("GithubService")
    ELSE IF git = "gitlab" THEN Return("GitlabService")
    ELSE IF git = "pagure" THEN Return("PagureService")
    ELSE IF git = "gerrit" THEN Return("GerritService")
    ELSE Raise(ValueError)

(***************************************************************************)
(* get_arguments: command line and config file merged.                     *)
(***************************************************************************)
\* A Python value, by type and text.
Py(type, val) == [type |-> type, val |-> val]

PyNone == Py("NoneType", "None")

PyTrue == Py("bool", "True")

PyFalse == Py("bool", "False")

PyStr(s) == Py("str", s)

PyInt(s) == Py("int", s)

\* bool(v)
Truthy(v) ==
    CASE v.type = "NoneType" -> FALSE
      [] v.type = "bool" -> v.val = "True"
      [] v.type = "str" -> v.val # ""
      [] v.type = "int" -> v.val # "0"

EmptyDict == [k \in {} |-> PyNone]

\* d[k] = v
Put(d, k, v) == [x \in DOMAIN d \cup {k} |-> IF x = k THEN v ELSE d[x]]

\* d.get(k, default)
DictGet(d, k, default) == IF k \in DOMAIN d THEN d[k] ELSE default

\* expanduser(expandvars(path)) where HOME is HomeDir: "$HOME" and a leading
\* "~" give way to the home directory, any other path stays as it is.
ExpandPath(path) ==
    CASE path = "~/ca.pem" -> "/home/user/ca.pem"
      [] path = "$HOME/cli.pem" -> "/home/user/cli.pem"
      [] OTHER -> path

\* The valid values argparse was given, by argument.
choices ==
    [state |-> {PyStr("older"), PyStr("newer")},
     duration |-> {PyStr("y"), PyStr("m"), PyStr("d"), PyStr("h"),
                   PyStr("min")}]

is_valid_choice(argument, value) ==
    \/ argument \notin DOMAIN choices
    \/ value \in choices[argument]

grouped_arguments == {"state", "duration", "value"}

\* "for arg in command_line_args: if ... is not None: parsed_arguments[arg]"
FromCommandLine(cli) ==
    [arg \in {a \in DOMAIN cli : cli[a] # PyNone} |-> cli[arg]]

\* The config may speak for an argument the command line left None or False.
LeftToConfig(cli, argument) ==
    \/ DictGet(cli, argument, PyNone) = PyNone
    \/ DictGet(cli, argument, PyNone) = PyFalse

GroupedAllowed_Always(config, argument) == TRUE

\* "argument not in grouped_arguments or (argument in grouped_arguments and
\* grouped_arguments.issubset(config_arguments.keys()))"
GroupedAllowed(config, argument) ==
    \/ argument \notin grouped_arguments
    \/ grouped_arguments \subseteq DOMAIN config

InvalidChoiceWarning == "Invalid choice"

GroupWarning ==
    "Either no or all arguments (state, duration and value) are required"

\* One turn of "for argument in config_arguments", acc holding
\* parsed_arguments, logged_error and the warnings logged so far.
ConfigStep(cli, config, argument, acc) ==
    IF ~LeftToConfig(cli, argument) THEN acc
    ELSE IF GroupedAllowed(config, argument)
    THEN IF is_valid_choice(argument, config[argument])
         THEN [acc EXCEPT !.parsed = Put(@, argument, config[argument])]
         ELSE [acc EXCEPT !.warnings = Append(@, InvalidChoiceWarning)]
    ELSE IF ~acc.logged_error
    THEN [acc EXCEPT !.warnings = Append(@, GroupWarning),
                     !.logged_error = TRUE]
    ELSE acc

RECURSIVE ConfigLoop(_, _, _, _, _)
ConfigLoop(cli, config, keys, i, acc) ==
    IF i > Len(keys) THEN acc
    ELSE ConfigLoop(cli, config, keys, i + 1,
                    ConfigStep(cli, config, keys[i], acc))

\* "if cli_arguments.<flag> or config_arguments.get(<flag>)": the flag is set
\* to True, and is left as the loops made it otherwise.
SetFlag(cli, config, flag, acc) ==
    IF Truthy(cli[flag]) \/ Truthy(DictGet(config, flag, PyNone))
    THEN [acc EXCEPT !.parsed = Put(@, flag, PyTrue)]
    ELSE acc

SslVerify_CliInsecureOnly(cli, config) ==
    IF Truthy(cli.insecure) THEN PyFalse
    ELSE IF Truthy(cli.cacert) THEN cli.cacert
    ELSE DictGet(config, "ssl_verify", PyTrue)

\* The value parsed_arguments['ssl_verify'] is assigned.
SslVerify(cli, config) ==
    IF ~Truthy(cli.insecure) /\ ~Truthy(DictGet(config, "insecure", PyFalse))
    THEN IF Truthy(cli.cacert) THEN cli.cacert
         ELSE DictGet(config, "ssl_verify", PyTrue)
    ELSE PyFalse

\* "if isinstance(parsed_arguments['ssl_verify'], str): ... expanduser(
\* expandvars(...))"
Expanded(v) == IF v.type = "str" THEN PyStr(ExpandPath(v.val)) ELSE v

SetSslVerify(cli, config, acc) ==
    [acc EXCEPT !.parsed = Put(@, "ssl_verify", Expanded(SslVerify(cli, config)))]

\* The keys of the config file in the order they are iterated.
KeyOrder ==
    <<"state", "duration", "value", "debug", "reverse", "insecure",
      "ssl_verify">>

ConfigKeys(config) == SelectSeq(KeyOrder, LAMBDA k : k \in DOMAIN config)

\* get_arguments(cli_arguments, config_arguments, choices): the returned
\* parsed_arguments with the warnings logged on the way; has_config is
\* "config_arguments is not None".
GetArguments(cli, has_config, config) ==
    IF ~has_config
    THEN [parsed |-> FromCommandLine(cli), logged_error |-> FALSE,
          warnings |-> <<>>]
    ELSE SetSslVerify(cli, config,
           SetFlag(cli, config, "reverse",
             SetFlag(cli, config, "debug",
               ConfigLoop(cli, config, ConfigKeys(config), 1,
                          [parsed |-> FromCommandLine(cli),
                           logged_error |-> FALSE,
                           warnings |-> <<>>]))))


(***************************************************************************)
(* The inputs of a call.                                                   *)
(***************************************************************************)
Filter(state_, value, duration) ==
    [state_ |-> state_, value |-> value, duration |-> duration]

NoFilter == Filter(None, None, None)

Filters ==
    { NoFilter,
      Filter(Some("older"), Some(30), Some("day")),
      Filter(Some("newer"), Some(30), Some("day")),
      Filter(Some("older"), Some(1), Some("month")),
      Filter(Some("newer"), Some(1), Some("year")) }

LastCommentedChoices == {None, Some(7)}

Args(git, repo_name, f, last_commented) ==
    [git |-> git, user_name |-> "team", repo_name |-> repo_name,
     state_ |-> f.state_, value |-> f.value, duration |-> f.duration,
     last_commented |-> last_commented]

GitNames ==
    {"github", "gitlab", "pagure", "gerrit", "GitHub", "bitbucket", "", "git"}

\* The listings of the projects of a group: a project without open merge
\* requests and one with two.
GroupProjectListings ==
    { <<>>,
      <<[created_at |-> Stamp(OldTime, "nofrac"), notes |-> <<>>],
        [created_at |-> Stamp(RecentTime, "frac3"),
         notes |-> <<Note(1, FALSE, Stamp(OldCommentTime, "frac3"))>>]>> }

\* The listings of a project asked for by name: those, and one whose merge
\* request is dated in neither GitLab form.
NamedProjectListings ==
    GroupProjectListings
        \cup {<<[created_at |-> Stamp(OldTime, "sql"), notes |-> <<>>]>>}

\* The moments and forms of the creation dates get_reviews is tried on.
SweepInstants ==
    { dt \in [year : {2019, 2020}, month : {1, 2, 12}, day : {1, 29, 31},
              hour : {0, 23}, minute : {0, 59}, second : {0, 59},
              microsecond : {0, 500000, 123456}] : ValidDateTime(dt) }

StampForms == {"frac6", "frac3", "nofrac", "sql"}

Locals0 ==
    /\ pc = "start"
    /\ response = <<>>
    /\ res = [bound |-> FALSE, value |-> <<>>]
    /\ gi = 0
    /\ pj = 0
    /\ fetched = <<>>
    /\ ret = None
    /\ err = "none"
    /\ warned = <<>>

InitFactory ==
    /\ call = "get_git_service"
    /\ \E git \in GitNames : args = Args(git, None, NoFilter, None)
    /\ remote = <<>>

InitGitlabNamed ==
    /\ call = "gitlab.request_reviews"
    /\ args = Args("gitlab", Some("repo"), NoFilter, None)
    /\ \E found \in BOOLEAN, listing \in NamedProjectListings :
          remote = [found |-> found, project |-> Project(<<0, 1>>, listing),
                    groups |-> <<>>]

InitGitlabGroups ==
    /\ call = "gitlab.request_reviews"
    /\ args = Args("gitlab", None, NoFilter, None)
    /\ \E groups \in SeqUpTo(SeqUpTo(GroupProjectListings, MaxProjects),
                             MaxGroups) :
          remote = [found |-> FALSE, project |-> Project(<<0, 1>>, <<>>),
                    groups |-> groups]

InitGitlabGetReviews ==
    /\ call = "gitlab.get_reviews"
    /\ \E f \in Filters, lc \in LastCommentedChoices :
          args = Args("gitlab", Some("repo"), f, lc)
    /\ \E listing \in SeqUpTo(GitlabMRKinds, MaxMRs) :
          remote = [project |-> Project(<<0, 1>>, listing)]

InitGitlabDates ==
    /\ call = "gitlab.get_reviews"
    /\ args = Args("gitlab", Some("repo"), NoFilter, None)
    /\ \E dt \in SweepInstants, f1 \in StampForms, f2 \in StampForms :
          remote = [project |-> Project(<<0, 1>>,
                       <<[created_at |-> Stamp(dt, f1), notes |-> <<>>],
                         [created_at |-> Stamp(dt, f2), notes |-> <<>>]>>)]

InitPagure ==
    /\ call = "pagure.request_reviews"
    /\ \E repo_name \in {None, Some("repo")}, f \in Filters,
          lc \in LastCommentedChoices :
          args = Args("pagure", repo_name, f, lc)
    /\ \E listing \in SeqUpTo(PagureRequestKinds, MaxMRs) :
          remote = [project |-> [namespace |-> IF args.repo_name # None
                                               THEN Some(args.user_name)
                                               ELSE None,
                                 name |-> "repo"],
                    listing |-> listing]

\* The command line as argparse leaves it: an option not given is None, a
\* flag not given is False.
CommandLines ==
    { [state |-> g.state, duration |-> g.duration, value |-> g.value,
       debug |-> PyFalse, reverse |-> PyFalse, insecure |-> insecure,
       cacert |-> cacert] :
        g \in { [state |-> PyNone, duration |-> PyNone, value |-> PyNone],
                [state |-> PyStr("newer"), duration |-> PyNone,
                 value |-> PyNone],
                [state |-> PyNone, duration |-> PyStr("d"),
                 value |-> PyInt("3")],
                [state |-> PyStr("newer"), duration |-> PyStr("d"),
                 value |-> PyInt("3")] },
        insecure \in {PyFalse, PyTrue},
        cacert \in {PyNone, PyStr("$HOME/cli.pem"), PyStr("/etc/cli.pem")} }

\* What the config file may say of an argument, PyNone standing for a key
\* the file does not hold.
ConfigChoices ==
    [state |-> {PyNone, PyStr("older"), PyStr("sometimes")},
     duration |-> {PyNone, PyStr("m")},
     value |-> {PyNone, PyInt("30")},
     debug |-> {PyNone, PyTrue},
     insecure |-> {PyNone, PyTrue, PyFalse},
     ssl_verify |-> {PyNone, PyTrue, PyFalse, PyStr("~/ca.pem")}]

\* The mapping of the keys said.
ConfigOf(said) ==
    [k \in {x \in DOMAIN said : said[x] # PyNone} |-> said[k]]

Configs ==
    { ConfigOf(said) :
        said \in [state : ConfigChoices.state,
                  duration : ConfigChoices.duration,
                  value : ConfigChoices.value,
                  debug : ConfigChoices.debug,
                  insecure : ConfigChoices.insecure,
                  ssl_verify : ConfigChoices.ssl_verify] }

InitGetArguments ==
    /\ call = "get_arguments"
    /\ \E cli \in CommandLines :
         \/ \E config \in Configs :
              args = [cli |-> cli, has_config |-> TRUE, config |-> config]
         \/ args = [cli |-> cli, has_config |-> FALSE, config |-> EmptyDict]
    /\ remote = <<>>

Init ==
    /\ Locals0
    /\ \/ InitFactory
       \/ InitGitlabNamed
       \/ InitGitlabGroups
       \/ InitGitlabGetReviews
       \/ InitGitlabDates
       \/ InitPagure
       \/ InitGetArguments

(***************************************************************************)
(* The calls.                                                              *)
(***************************************************************************)
Raises(e) ==
    /\ pc' = "raised"
    /\ err' = e
    /\ ret' = None

Returns(v) ==
    /\ pc' = "done"
    /\ ret' = Some(v)
    /\ err' = "none"

\* "if res: response.extend(res)"
Extend(response_, res_) == IF res_ # <<>> THEN response_ \o res_ ELSE response_

\* The project of group g at place k.
GroupProject(g, k) == Project(<<g, k>>, remote.groups[g][k])

\* The call ends as r does.
Ends(r) == IF r.ok THEN Returns(r.value) ELSE Raises(r.error)

GetGitServiceCall ==
    /\ call = "get_git_service"
    /\ pc = "start"
    /\ Ends(GetGitService(args.git))
    /\ UNCHANGED <<warned, call, args, remote, response, res, gi, pj, fetched>>

\* r being what get_reviews came to for the named project: "res = ...",
\* "if res: response.extend(res)" and "return response".
NamedProjectFetched(r) ==
    IF ~r.ok
    THEN /\ Raises(r.error)
         /\ UNCHANGED <<response, res>>
    ELSE /\ res' = [bound |-> TRUE, value |-> r.value]
         /\ response' = Extend(response, r.value)
         /\ Returns(Extend(response, r.value))

\* r being what get_reviews came to for a project of a group: "res = ...".
GroupProjectFetched(r) ==
    IF ~r.ok
    THEN /\ Raises(r.error)
         /\ UNCHANGED <<res, pj>>
    ELSE /\ res' = [bound |-> TRUE, value |-> r.value]
         /\ pj' = pj + 1
         /\ UNCHANGED <<pc, ret, err>>

\* request_reviews with repo_name: gl.projects.get, then get_reviews.
GitlabRequestNamed ==
    /\ call = "gitlab.request_reviews"
    /\ pc = "start"
    /\ args.repo_name # None
    /\ IF ~remote.found
       THEN /\ Raises("Exception")
            /\ UNCHANGED <<response, res, fetched>>
       ELSE /\ fetched' = Append(fetched, remote.project.id)
            /\ NamedProjectFetched(GitlabGetReviews(remote.project, args))
    /\ UNCHANGED <<warned, call, args, remote, gi, pj>>

\* request_reviews without repo_name: gl.groups.search.
GitlabSearchGroups_EmptyOk ==
    /\ call = "gitlab.request_reviews"
    /\ pc = "start"
    /\ args.repo_name = None
    /\ pc' = "group"
    /\ gi' = 1
    /\ UNCHANGED <<warned, call, args, remote, response, res, pj, fetched, ret, err>>

GitlabSearchGroups ==
    /\ call = "gitlab.request_reviews"
    /\ pc = "start"
    /\ args.repo_name = None
    /\ IF remote.groups = <<>>
       THEN /\ Raises("Exception")
            /\ UNCHANGED gi
       ELSE /\ pc' = "group"
            /\ gi' = 1
            /\ UNCHANGED <<ret, err>>
    /\ UNCHANGED <<warned, call, args, remote, response, res, pj, fetched>>

\* "for group in groups: projects = gl.group_projects.list(...)"
GitlabListProjects ==
    /\ call = "gitlab.request_reviews"
    /\ pc = "group"
    /\ gi <= Len(remote.groups)
    /\ pc' = "project"
    /\ pj' = 1
    /\ UNCHANGED <<warned, call, args, remote, response, res, gi, fetched, ret, err>>

\* "for project in projects: res = self.get_reviews(...)"
GitlabFetchProject ==
    /\ call = "gitlab.request_reviews"
    /\ pc = "project"
    /\ pj <= Len(remote.groups[gi])
    /\ fetched' = Append(fetched, <<gi, pj>>)
    /\ GroupProjectFetched(GitlabGetReviews(GroupProject(gi, pj), args))
    /\ UNCHANGED <<warned, call, args, remote, response, gi>>

\* After the projects of the group: "if res: response.extend(res)".  Reading
\* res before any assignment raises UnboundLocalError.
GitlabExtend ==
    /\ call = "gitlab.request_reviews"
    /\ pc = "project"
    /\ pj > Len(remote.groups[gi])
    /\ IF ~res.bound
       THEN /\ Raises("UnboundLocalError")
            /\ UNCHANGED <<response, gi>>
       ELSE /\ response' = Extend(response, res.value)
            /\ gi' = gi + 1
            /\ pc' = "group"
            /\ UNCHANGED <<ret, err>>
    /\ UNCHANGED <<warned, call, args, remote, res, pj, fetched>>

\* "return response"
GitlabReturn ==
    /\ call = "gitlab.request_reviews"
    /\ pc = "group"
    /\ gi > Len(remote.groups)
    /\ Returns(response)
    /\ UNCHANGED <<warned, call, args, remote, response, res, gi, pj, fetched>>

\* GitlabService.get_reviews on one project.
GitlabGetReviewsCall ==
    /\ call = "gitlab.get_reviews"
    /\ pc = "start"
    /\ Ends(GitlabGetReviews(remote.project, args))
    /\ fetched' = Append(fetched, remote.project.id)
    /\ UNCHANGED <<warned, call, args, remote, response, res, gi, pj>>

\* PagureService.request_reviews.
PagureRequestReviews ==
    /\ call = "pagure.request_reviews"
    /\ pc = "start"
    /\ Ends(PagureReviewLoop(remote, args, 1, <<>>))
    /\ fetched' = Append(fetched, PagureRequestUrl(args))
    /\ UNCHANGED <<warned, call, args, remote, response, res, gi, pj>>

\* r being what get_arguments came to.
ArgumentsParsed(r) ==
    /\ Returns(r.parsed)
    /\ warned' = r.warnings

GetArgumentsCall ==
    /\ call = "get_arguments"
    /\ pc = "start"
    /\ ArgumentsParsed(GetArguments(args.cli, args.has_config, args.config))
    /\ UNCHANGED <<call, args, remote, response, res, gi, pj, fetched>>

Next ==
    \/ GetGitServiceCall
    \/ GitlabRequestNamed
    \/ GitlabSearchGroups
    \/ GitlabListProjects
    \/ GitlabFetchProject
    \/ GitlabExtend
    \/ GitlabReturn
    \/ GitlabGetReviewsCall
    \/ PagureRequestReviews
    \/ GetArgumentsCall

Spec == Init /\ [][Next]_vars


(***************************************************************************)
(* What the properties speak of.                                           *)
(***************************************************************************)
\* The moment a timestamp's text denotes: the form without a fraction drops
\* the microseconds, the one with milliseconds cuts them.
Denoted(st) ==
    CASE st.form = "frac6" -> st.instant
      [] st.form = "frac3" ->
            [st.instant EXCEPT !.microsecond = (@ \div 1000) * 1000]
      [] OTHER -> [st.instant EXCEPT !.microsecond = 0]

IsoForm(st) == st.form \in {"frac6", "frac3", "nofrac"}

\* The moment an epoch text of the Pagure data denotes.
EpochMoment(text) ==
    LET t == CHOOSE x \in {OldTime, RecentTime, OldCommentTime, NewCommentTime} :
                 Decimal(ToSeconds(x)) = text
    IN [t EXCEPT !.microsecond = 0]

\* A call of one project's listing that has returned its list.
ListingCall == call \in {"gitlab.get_reviews", "pagure.request_reviews"}

ListingDone == ListingCall /\ pc = "done"

Raw ==
    IF call = "pagure.request_reviews" THEN remote.listing
    ELSE remote.project.listing

UrlOf(k) ==
    IF call = "pagure.request_reviews"
    THEN <<RepoReference(remote.project), k>>
    ELSE <<remote.project.id, k>>

Returned(k) == \E i \in 1..Len(Get(ret)) : Get(ret)[i].url = UrlOf(k)

CreationTime(k) ==
    IF call = "pagure.request_reviews" THEN EpochMoment(Raw[k].date_created)
    ELSE Denoted(Raw[k].created_at)

\* The comment the adapter is to take for the last one: GitLab's first note
\* that is no system note, Pagure's last comment.
HumanNotes(k) == {n \in 1..Len(Raw[k].notes) : ~Raw[k].notes[n].system}

HasLastComment(k) ==
    IF call = "pagure.request_reviews" THEN Raw[k].comments # <<>>
    ELSE HumanNotes(k) # {}

LastCommentTime(k) ==
    IF call = "pagure.request_reviews"
    THEN EpochMoment(Raw[k].comments[Len(Raw[k].comments)].date_created)
    ELSE Denoted(Raw[k].notes[CHOOSE n \in HumanNotes(k) :
                     \A m \in HumanNotes(k) : n <= m].created_at)

StatePasses(k) ==
    check_request_state(CreationTime(k), args.state_, args.value, args.duration)

Suppressed(k) ==
    /\ HasLastComment(k)
    /\ args.last_commented # None
    /\ has_new_comments(Some(LastCommentTime(k)), args.last_commented)

\* C3: in both adapters, when the call has returned, a raw request whose
\* creation time check_request_state rejects has no Review in the list.
C3_StateFilterExcludes ==
    ListingDone =>
        \A k \in 1..Len(Raw) : ~StatePasses(k) => ~Returned(k)

C3_Witness ==
    /\ call = "pagure.request_reviews"
    /\ pc = "done"
    /\ \E k \in 1..Len(Raw), j \in 1..Len(Raw) :
          ~StatePasses(k) /\ StatePasses(j) /\ Returned(j)

\* C4: in both adapters, when the call has returned, a raw request that passed
\* the state filter is missing from the list exactly when it has a last
\* comment, last_commented is set and has_new_comments is true of them.
C4_ActivityFilterExact ==
    ListingDone =>
        \A k \in 1..Len(Raw) : StatePasses(k) => (~Returned(k) <=> Suppressed(k))

C4_Witness ==
    /\ call = "gitlab.get_reviews"
    /\ pc = "done"
    /\ args.last_commented # None
    /\ \E k \in 1..Len(Raw), j \in 1..Len(Raw) :
          /\ StatePasses(k) /\ Suppressed(k) /\ ~Returned(k)
          /\ StatePasses(j) /\ HasLastComment(j) /\ Returned(j)

\* C10: the list a listing call returns holds, in the order of the raw
\* listing, exactly one Review for each raw request that passes the state
\* filter and is not suppressed by the activity filter; with neither state nor
\* last_commented that is one Review for each raw request.
KeptRequests ==
    SelectSeq([k \in 1..Len(Raw) |-> k],
              LAMBDA k : StatePasses(k) /\ ~Suppressed(k))

C10_OneReviewPerKeptRequestInOrder ==
    ListingDone =>
        /\ Len(Get(ret)) = Len(KeptRequests)
        /\ \A i \in 1..Len(KeptRequests) : Get(ret)[i].url = UrlOf(KeptRequests[i])
        /\ (args.state_ = None /\ args.last_commented = None)
              => Len(Get(ret)) = Len(Raw)

C10_Witness ==
    /\ call = "gitlab.get_reviews"
    /\ pc = "done"
    /\ args.state_ # None
    /\ Len(Raw) = 2
    /\ Len(Get(ret)) = 2
    /\ Get(ret)[1].url = UrlOf(1)
    /\ Get(ret)[2].url = UrlOf(2)


\* The reviews of every project of every group, in the order of the groups
\* and of the projects of each.
RECURSIVE ReviewsOfProjects(_, _)
ReviewsOfProjects(g, k) ==
    IF k = 0 THEN <<>>
    ELSE ReviewsOfProjects(g, k - 1)
            \o GitlabGetReviews(GroupProject(g, k), args).value

RECURSIVE ReviewsOfGroups(_)
ReviewsOfGroups(g) ==
    IF g = 0 THEN <<>>
    ELSE ReviewsOfGroups(g - 1) \o ReviewsOfProjects(g, Len(remote.groups[g]))

GroupsCall == call = "gitlab.request_reviews" /\ args.repo_name = None

\* C1: request_reviews without repo_name returns the get_reviews results of
\* every project of every group found, concatenated in project order.
C1_AllProjectsConcatenated ==
    (GroupsCall /\ pc = "done") =>
        Get(ret) = ReviewsOfGroups(Len(remote.groups))

\* C2: request_reviews without repo_name, the namespace being a group that
\* exists and has no projects, ends normally and returns the empty list.
C2_EmptyGroupReturnsEmpty ==
    (/\ GroupsCall
     /\ remote.groups # <<>>
     /\ \A g \in 1..Len(remote.groups) : remote.groups[g] = <<>>)
        => /\ pc # "raised"
           /\ pc = "done" => Get(ret) = <<>>

\* The notes of every merge request of the listing are ones get_last_comment
\* reads, so that the creation dates alone decide the call.
NotesReadable ==
    \A k \in 1..Len(Raw) : \A n \in HumanNotes(k) :
        Raw[k].notes[n].created_at.form \in {"frac6", "frac3"}

Malformed == {k \in 1..Len(Raw) : ~IsoForm(Raw[k].created_at)}

\* C5: get_reviews does not fail on one merge request whose creation date is
\* in neither form: it returns, and the list holds the Reviews of the other
\* requests that pass the filters.
C5_MalformedRequestSkipped ==
    (/\ call = "gitlab.get_reviews"
     /\ pc # "start"
     /\ NotesReadable
     /\ Cardinality(Malformed) = 1)
        => /\ pc = "done"
           /\ Len(Get(ret)) =
                 Cardinality({k \in 1..Len(Raw) \ Malformed :
                                 StatePasses(k) /\ ~Suppressed(k)})

\* The comment of raw request k that last_comment lc was built from (its body
\* is the comment's), and whether the forge marks it as its own.
SystemGenerated(k, lc) ==
    IF call = "pagure.request_reviews"
    THEN \E n \in 1..Len(Raw[k].comments) :
            Raw[k].comments[n].comment = lc.body /\ Raw[k].comments[n].notification
    ELSE \E n \in 1..Len(Raw[k].notes) :
            Raw[k].notes[n].body = lc.body /\ Raw[k].notes[n].system

\* C6: the last_comment of every Review either adapter returns is absent or
\* built from a comment that is not system-generated.
C6_LastCommentNotSystem ==
    ListingDone =>
        \A i \in 1..Len(Get(ret)) :
            \/ Get(ret)[i].last_comment = None
            \/ ~SystemGenerated(Get(ret)[i].url[2], Get(Get(ret)[i].last_comment))

Unresolved ==
    \/ args.repo_name # None /\ ~remote.found
    \/ args.repo_name = None /\ remote.groups = <<>>

\* C7: GitlabService.request_reviews whose target cannot be resolved (the
\* named project is not found, or the group search finds no group) ends in an
\* error, returns no list and never calls get_reviews.
C7_UnresolvedTargetRaises ==
    (call = "gitlab.request_reviews" /\ pc # "start" /\ Unresolved)
        => /\ pc = "raised"
           /\ err = "Exception"
           /\ ret = None
           /\ fetched = <<>>

C7_Witness ==
    /\ call = "gitlab.request_reviews"
    /\ args.repo_name = None
    /\ remote.groups = <<>>
    /\ pc = "raised"

\* The adapter each forge name stands for.
ServiceNamed ==
    [n \in {"github", "gitlab", "pagure", "gerrit"} |->
        CASE n = "github" -> "GithubService"
          [] n = "gitlab" -> "GitlabService"
          [] n = "pagure" -> "PagureService"
          [] n = "gerrit" -> "GerritService"]

\* C8: get_git_service returns the adapter of the name for exactly "github",
\* "gitlab", "pagure" and "gerrit", and for every other name raises
\* ValueError and returns no adapter.
C8_FactoryByExactName ==
    (call = "get_git_service" /\ pc # "start") =>
        IF args.git \in DOMAIN ServiceNamed
        THEN pc = "done" /\ ret = Some(ServiceNamed[args.git])
        ELSE pc = "raised" /\ err = ValueError /\ ret = None

C8_Witness ==
    /\ call = "get_git_service"
    /\ args.git = "GitHub"
    /\ pc = "raised"

\* C9: get_reviews reads a creation date written with or without fractional
\* seconds: when every date of the listing is in one of the two forms the
\* call returns, and the time of every Review is the moment its request's
\* date denotes, so two dates of one moment give one time.
C9_BothDateFormsParse ==
    (call = "gitlab.get_reviews" /\ pc # "start") =>
        /\ (NotesReadable /\ Malformed = {}) => pc = "done"
        /\ pc = "done" =>
              \A i \in 1..Len(Get(ret)) :
                  Get(ret)[i].time = Denoted(Raw[Get(ret)[i].url[2]].created_at)

C9_Witness ==
    /\ call = "gitlab.get_reviews"
    /\ pc = "done"
    /\ Len(Raw) = 2
    /\ Raw[1].created_at.form = "nofrac"
    /\ Raw[2].created_at.form = "frac6"
    /\ Raw[1].created_at.instant.microsecond = 0
    /\ Len(Get(ret)) = 2
    /\ Get(ret)[1].time = Get(ret)[2].time


\* C13: the list request_reviews returns for the groups found holds no merge
\* request twice, whatever the groups are, a group without projects after one
\* with projects included.
C13_NoMergeRequestTwice ==
    (GroupsCall /\ pc = "done") =>
        \A i \in 1..Len(Get(ret)), j \in 1..Len(Get(ret)) :
            Get(ret)[i].url = Get(ret)[j].url => i = j

\* The note get_last_comment reads of raw request k (the first that is no
\* system note) is dated in one of the two forms of the creation date.
FirstNoteInEitherForm(k) ==
    HumanNotes(k) # {} =>
        IsoForm(Raw[k].notes[CHOOSE n \in HumanNotes(k) :
                    \A m \in HumanNotes(k) : n <= m].created_at)

\* C14: get_reviews completes on a listing whose creation dates are well
\* formed and whose first non-system notes are dated with or without
\* fractional seconds.
C14_NoteWithoutFractionAccepted ==
    (/\ call = "gitlab.get_reviews"
     /\ pc # "start"
     /\ Malformed = {}
     /\ \A k \in 1..Len(Raw) : FirstNoteInEitherForm(k))
        => pc = "done"


\* get_arguments has returned.
ArgumentsCall == call = "get_arguments" /\ pc = "done"

\* The keys of the group the config file holds.
ConfigGrouped == grouped_arguments \cap DOMAIN args.config

PartialGroup == ConfigGrouped # {} /\ ConfigGrouped # grouped_arguments

OnCommandLine(k) == args.cli[k] # PyNone

\* The returned arguments hold k as the config file says it, the command line
\* not having given it.
CopiedFromConfig(k) ==
    /\ ~OnCommandLine(k)
    /\ k \in DOMAIN Get(ret)

\* How many times the warning of the group was logged.
GroupWarnings ==
    Cardinality({i \in 1..Len(warned) : warned[i] = GroupWarning})

InsecureSet ==
    \/ args.cli.insecure = PyTrue
    \/ /\ "insecure" \in DOMAIN args.config
       /\ args.config.insecure = PyTrue

\* The path a string names, "~" and environment variables expanded.
PathNamed(v) == PyStr(ExpandPath(v.val))

\* The config's ssl_verify, True when the file does not hold it.
ConfigSslVerify ==
    IF "ssl_verify" \notin DOMAIN args.config THEN PyTrue
    ELSE IF args.config.ssl_verify.type = "str"
    THEN PathNamed(args.config.ssl_verify)
    ELSE args.config.ssl_verify

\* C12: called with a config mapping, get_arguments returns ssl_verify as
\* False when insecure is set on the command line or in the config, else as
\* the path of the command line's cacert when one was given, else as the
\* config's ssl_verify, True when the config has none; it is always there and
\* is a boolean or a path string.
C12_SslVerifyPrecedence ==
    (ArgumentsCall /\ args.has_config) =>
        /\ "ssl_verify" \in DOMAIN Get(ret)
        /\ Get(ret).ssl_verify.type \in {"bool", "str"}
        /\ Get(ret).ssl_verify =
             IF InsecureSet THEN PyFalse
             ELSE IF args.cli.cacert # PyNone THEN PathNamed(args.cli.cacert)
             ELSE ConfigSslVerify

\* A cacert on the command line and an ssl_verify path in the config, insecure
\* nowhere: the cacert's path is returned.
C12_Witness ==
    /\ ArgumentsCall
    /\ args.has_config
    /\ ~InsecureSet
    /\ args.cli.cacert = PyStr("$HOME/cli.pem")
    /\ "ssl_verify" \in DOMAIN args.config
    /\ args.config.ssl_verify = PyStr("~/ca.pem")
    /\ Get(ret).ssl_verify = PyStr("/home/user/cli.pem")

====
